---- MODULE Spec2Model ----
(***************************************************************************)
(* Model of the CodeReviewBot repository: the unified-diff line mapper     *)
(* (CodeReviewBot._extract_changed_lines), the feedback parser             *)
(* (CodeReviewBot._parse_ai_feedback) and the GitHub App token cache       *)
(* (GitHubAppAuth).  Texts are sequences of one-character strings, so that *)
(* split, strip, startswith and the digit regexes are computed as the code *)
(* computes them.                                                          *)
(***************************************************************************)
EXTENDS Integers, Sequences, FiniteSets, TLC

VARIABLES
    \* ---- CodeReviewBot._extract_changed_lines ----
    patch,               \* the argument: the patch text
    mpc,                 \* "loop" while iterating patch.split("\n"), then "done"
    mi,                  \* index of the next line of patch.split("\n")
    current_line,        \* local current_line
    changed_lines_dict,  \* local dict, as its items in insertion order
    line_numbers,        \* local list
    \* ---- CodeReviewBot._parse_ai_feedback ----
    feedback_text,       \* the argument: the model's answer
    valid_line_numbers,  \* the argument: the changed-line numbers
    ppc,                 \* "loop", then "done" (returned) or "error" (raised)
    pi,                  \* index of the next line of feedback_text.split("\n")
    comments,            \* local list of emitted comments
    current_comment,     \* local dict with the optional keys body and line
    presult,             \* the returned list
    perr,                \* the exception raised, "none" when none
    phist,               \* the calls completed before this one: arguments and outcome
    \* ---- GitHubAppAuth ----
    jwt_token,           \* self.jwt_token (None or the signed payload)
    jwt_expires_at,      \* self.jwt_expires_at
    installation_token,  \* self.installation_token (None or the token)
    token_expires_at,    \* self.token_expires_at
    now,                 \* time.time(), seconds since 00:00:00Z of the day
    tz,                  \* UTC offset of the process's local time zone
    flow,                \* per caller: position and locals of get_installation_token
    nexch,               \* number of exchange calls the server has answered
    token_src,           \* the response body installation_token was read from
    ncalls,              \* number of get_installation_token calls started
    serialized,          \* the callers wrap each call in one critical section
    lock,                \* holder of that critical section, 0 when free
    order,               \* the callers in the order of their cache checks
    \* ---- resolve_bot_comments ----
    pr_comments,         \* the pull request's review comments on the server, by id
    pr_reviews,          \* the reviews created on the pull request
    rpc,                 \* position in resolve_bot_comments
    rcomments,           \* local comments = response.json()
    bot_slug,            \* local bot_slug
    ri,                  \* index of the next element of comments
    resolved_count,      \* local resolved_count
    rrun,                \* number of the run of the script
    rupdated,            \* the comments updated so far: run, id and body before
    rlog                 \* how the earlier runs ended

mapperVars == <<patch, mpc, mi, current_line, changed_lines_dict, line_numbers>>

parserVars ==
    <<feedback_text, valid_line_numbers, ppc, pi, comments, current_comment,
      presult, perr, phist>>

authVars ==
    <<jwt_token, jwt_expires_at, installation_token, token_expires_at, now, tz,
      flow, nexch, token_src, ncalls, serialized, lock, order>>

resolverVars ==
    <<pr_comments, pr_reviews, rpc, rcomments, bot_slug, ri, resolved_count, rrun,
      rupdated, rlog>>

vars == <<mapperVars, parserVars, authVars, resolverVars>>

\* Python None, for the token attributes (tokens are numbered from 1)
None == 0

\* the components a specification does not run
MapperOff ==
    /\ patch = <<>>
    /\ mpc = "off"
    /\ mi = 1
    /\ current_line = 0
    /\ changed_lines_dict = <<>>
    /\ line_numbers = <<>>

ParserOff ==
    /\ feedback_text = <<>>
    /\ valid_line_numbers = <<>>
    /\ ppc = "off"
    /\ pi = 1
    /\ comments = <<>>
    /\ current_comment = [hasBody |-> FALSE, body |-> <<>>, hasLine |-> FALSE, line |-> 0]
    /\ presult = <<>>
    /\ perr = "none"
    /\ phist = <<>>

AuthOff ==
    /\ jwt_token = None
    /\ jwt_expires_at = 0
    /\ installation_token = None
    /\ token_expires_at = 0
    /\ now = 0
    /\ tz = 0
    /\ flow = <<>>
    /\ nexch = 0
    /\ token_src = [token |-> 0, expires_at |-> [kind |-> "missing", h |-> 0, m |-> 0, s |-> 0],
                    scope |-> "none"]
    /\ ncalls = 0
    /\ serialized = FALSE
    /\ lock = 0
    /\ order = <<>>

ResolverOff ==
    /\ pr_comments = <<>>
    /\ pr_reviews = <<>>
    /\ rpc = "off"
    /\ rcomments = <<>>
    /\ bot_slug = <<>>
    /\ ri = 1
    /\ resolved_count = 0
    /\ rrun = 0
    /\ rupdated = {}
    /\ rlog = <<>>

----------------------------------------------------------------------------
(* Python str primitives on character sequences *)

NL == "\n"

Digits == <<"0", "1", "2", "3", "4", "5", "6", "7", "8", "9">>

IsDigit(c) == \E d \in DOMAIN Digits : Digits[d] = c

DigitVal(c) == (CHOOSE d \in DOMAIN Digits : Digits[d] = c) - 1

\* str.strip() with no argument removes leading and trailing whitespace
IsSpace(c) == c \in {" ", "\t", "\r", NL}

StartsWith(s, p) == Len(s) >= Len(p) /\ SubSeq(s, 1, Len(p)) = p

RECURSIVE LStrip(_)
LStrip(s) == IF s # <<>> /\ IsSpace(Head(s)) THEN LStrip(Tail(s)) ELSE s

RECURSIVE RStrip(_)
RStrip(s) ==
    IF s # <<>> /\ IsSpace(s[Len(s)]) THEN RStrip(SubSeq(s, 1, Len(s) - 1)) ELSE s

Strip(s) == RStrip(LStrip(s))

Min(S) == CHOOSE x \in S : \A y \in S : x <= y

\* text.split("\n"): always at least one element, "" splits to [""]
RECURSIVE SplitLines(_)
SplitLines(s) ==
    LET nls == {i \in DOMAIN s : s[i] = NL}
    IN  IF nls = {} THEN <<s>>
        ELSE LET i == Min(nls)
             IN  <<SubSeq(s, 1, i - 1)>> \o SplitLines(SubSeq(s, i + 1, Len(s)))

\* "\n".join(ls)
RECURSIVE JoinLines(_)
JoinLines(ls) ==
    IF ls = <<>> THEN <<>>
    ELSE IF Len(ls) = 1 THEN ls[1]
    ELSE ls[1] \o <<NL>> \o JoinLines(Tail(ls))

\* int(digits) for a non-empty run of decimal digits
RECURSIVE ParseInt(_)
ParseInt(ds) ==
    IF ds = <<>> THEN 0
    ELSE 10 * ParseInt(SubSeq(ds, 1, Len(ds) - 1)) + DigitVal(ds[Len(ds)])

\* the maximal run of digits of s that starts at index i
DigitRun(s, i) ==
    LET stops == {j \in i..Len(s) : ~IsDigit(s[j])}
        last  == IF stops = {} THEN Len(s) ELSE Min(stops) - 1
    IN  SubSeq(s, i, last)

\* re.search(r"\+(\d+)", line): <<>> when there is no match, else group(1)
PlusDigits(line) ==
    LET hits == {i \in 1..(Len(line) - 1) : line[i] = "+" /\ IsDigit(line[i + 1])}
    IN  IF hits = {} THEN <<>> ELSE DigitRun(line, Min(hits) + 1)

\* re.search(r"\d+", text): <<>> when there is no match, else group()
FirstDigits(text) ==
    LET hits == {i \in DOMAIN text : IsDigit(text[i])}
    IN  IF hits = {} THEN <<>> ELSE DigitRun(text, Min(hits))

----------------------------------------------------------------------------
(* Python dict, as the sequence of its items in insertion order *)

\* Mutant: the keys are handed over in ascending order
DictKeysSorted(d) == SortSeq([i \in DOMAIN d |-> d[i].k], LAMBDA a, b : a < b)

\* list(d.keys())
DictKeys(d) == [i \in DOMAIN d |-> d[i].k]

DictHas(d, k) == \E i \in DOMAIN d : d[i].k = k

DictGet(d, k) == d[CHOOSE i \in DOMAIN d : d[i].k = k].v

\* d[k] = v: an existing key keeps its position
DictPut(d, k, v) ==
    IF DictHas(d, k)
    THEN [i \in DOMAIN d |-> IF d[i].k = k THEN [k |-> k, v |-> v] ELSE d[i]]
    ELSE Append(d, [k |-> k, v |-> v])

DictAsMap(d) == [k \in {d[i].k : i \in DOMAIN d} |-> DictGet(d, k)]

----------------------------------------------------------------------------
(* CodeReviewBot._extract_changed_lines *)

AtAt == <<"@", "@">>
Plus3 == <<"+", "+", "+">>

IsHeaderLine(line) == StartsWith(line, AtAt)

IsAddedLine(line) ==
    /\ ~IsHeaderLine(line)
    /\ StartsWith(line, <<"+">>)
    /\ ~StartsWith(line, Plus3)

\* the elif branch is taken: not an added line and not starting with "-"
IsCountedLine(line) ==
    /\ ~IsHeaderLine(line)
    /\ ~IsAddedLine(line)
    /\ ~StartsWith(line, <<"-">>)

\* neither branch is taken
IsSkippedLine(line) ==
    /\ ~IsHeaderLine(line)
    /\ ~IsAddedLine(line)
    /\ StartsWith(line, <<"-">>)

MState(cl, d, ln) == [current_line |-> cl, dict |-> d, nums |-> ln]

MStart == MState(0, <<>>, <<>>)

\* Mutant: the header sets the counter to newStart (no "- 1")
OnHunkHeaderNoMinus(st, line) ==
    LET g == PlusDigits(line)
    IN  IF g # <<>> THEN [st EXCEPT !.current_line = ParseInt(g)] ELSE st

\* Mutant: the header adds newStart - 1 to the counter instead of setting it
OnHunkHeaderRelative(st, line) ==
    LET g == PlusDigits(line)
    IN  IF g # <<>>
        THEN [st EXCEPT !.current_line = st.current_line + ParseInt(g) - 1]
        ELSE st

\* lines 92-96
OnHunkHeader(st, line) ==
    LET g == PlusDigits(line)
    IN  IF g # <<>> THEN [st EXCEPT !.current_line = ParseInt(g) - 1] ELSE st

\* lines 98-101
OnAddedLine(st, line) ==
    LET n == st.current_line + 1
    IN  MState(n, DictPut(st.dict, n, Strip(Tail(line))), Append(st.nums, n))

\* Mutant: a removed line advances the counter like a context line
OnOtherLineCountsRemoved(st, line) ==
    [st EXCEPT !.current_line = st.current_line + 1]

\* lines 102-103
OnOtherLine(st, line) ==
    IF ~StartsWith(line, <<"-">>)
    THEN [st EXCEPT !.current_line = st.current_line + 1]
    ELSE st

\* one iteration of the for loop, lines 91-103
MapStep(st, line) ==
    IF IsHeaderLine(line) THEN OnHunkHeader(st, line)
    ELSE IF IsAddedLine(line) THEN OnAddedLine(st, line)
    ELSE OnOtherLine(st, line)

RECURSIVE MapFold(_, _)
MapFold(st, ls) == IF ls = <<>> THEN st ELSE MapFold(MapStep(st, Head(ls)), Tail(ls))

\* the whole function on a sequence of lines
ExtractChangedLines(ls) == MapFold(MStart, ls)

\* analyze_code, lines 155-157: the valid_line_numbers it hands to the parser
AnalyzeCodeValidLines(d) == DictKeys(d)

----------------------------------------------------------------------------
(* Inputs of the mapper *)

MaxPatchLines == 4

H10    == <<"@", "@", " ", "-", "1", ",", "3", " ", "+", "1", "0", ",", "4", " ", "@", "@">>
H2     == <<"@", "@", " ", "-", "7", " ", "+", "2", " ", "@", "@">>
HNoNew == <<"@", "@">>
H0     == <<"@", "@", " ", "-", "1", ",", "2", " ", "+", "0", ",", "0", " ", "@", "@">>
AddFoo == <<"+", "f", "o", "o">>
AddBaz == <<"+", "b", "a", "z">>
AddPad == <<"+", " ", "b", "a", "z", " ">>
DelBar == <<"-", "b", "a", "r">>
Ctx    == <<" ", "c", "t", "x">>
Empty  == <<>>
NewFileMarker == <<"+", "+", "+", " ", "b", "/", "f">>

PatchLineShapes == {H10, H2, HNoNew, AddPad, DelBar, Ctx, Empty, NewFileMarker}

SeqsUpTo(S, n) == UNION {[1..k -> S] : k \in 0..n}

\* @@ -1,3 +10,4 @@ / context / +foo / -bar / +baz
C1Patch == JoinLines(<<H10, Ctx, AddFoo, DelBar, AddBaz>>)

\* @@ -1,2 +0,0 @@ / +foo / context / +baz
ZeroStartPatch == JoinLines(<<H0, AddFoo, Ctx, AddBaz>>)

Patches ==
    {JoinLines(ls) : ls \in SeqsUpTo(PatchLineShapes, MaxPatchLines)}
        \cup {C1Patch, ZeroStartPatch}

MLines == SplitLines(patch)

MLine == MLines[mi]

MSt == MState(current_line, changed_lines_dict, line_numbers)

MSet(st) ==
    /\ current_line' = st.current_line
    /\ changed_lines_dict' = st.dict
    /\ line_numbers' = st.nums

InitMapper ==
    /\ patch \in Patches
    /\ mpc = "loop"
    /\ mi = 1
    /\ current_line = 0
    /\ changed_lines_dict = <<>>
    /\ line_numbers = <<>>
    /\ ParserOff
    /\ AuthOff
    /\ ResolverOff

MInLoop == mpc = "loop" /\ mi <= Len(MLines)

MAdvance == mi' = mi + 1 /\ UNCHANGED <<patch, mpc, parserVars, authVars, resolverVars>>

MapHunkHeader ==
    /\ MInLoop
    /\ IsHeaderLine(MLine)
    /\ MSet(OnHunkHeader(MSt, MLine))
    /\ MAdvance

MapAddedLine ==
    /\ MInLoop
    /\ IsAddedLine(MLine)
    /\ MSet(OnAddedLine(MSt, MLine))
    /\ MAdvance

MapCountedLine ==
    /\ MInLoop
    /\ IsCountedLine(MLine)
    /\ MSet(OnOtherLine(MSt, MLine))
    /\ MAdvance

MapSkippedLine ==
    /\ MInLoop
    /\ IsSkippedLine(MLine)
    /\ MSet(OnOtherLine(MSt, MLine))
    /\ MAdvance

MapReturn ==
    /\ mpc = "loop"
    /\ mi > Len(MLines)
    /\ mpc' = "done"
    /\ UNCHANGED <<patch, mi, current_line, changed_lines_dict, line_numbers>>
    /\ UNCHANGED <<parserVars, authVars, resolverVars>>

NextMapper ==
    \/ MapHunkHeader
    \/ MapAddedLine
    \/ MapCountedLine
    \/ MapSkippedLine
    \/ MapReturn

SpecMapper == InitMapper /\ [][NextMapper]_vars

----------------------------------------------------------------------------
(* Claims about the mapper *)

Foo == <<"f", "o", "o">>
Baz == <<"b", "a", "z">>

\* the lines the loop has already processed
MDone == mi - 1

\* C1 as stated: on the patch @@ -1,3 +10,4 @@ / context / +foo / -bar / +baz
\* the returned map is {11: "foo", 13: "baz"}.
C1_AsStated ==
    (mpc = "done" /\ patch = C1Patch)
        => DictAsMap(changed_lines_dict) = (11 :> Foo @@ 13 :> Baz)

\* C1 amended: on that patch the returned map is {11: "foo", 12: "baz"} (the
\* removed line takes no post-image number) and the changed-line list is [11, 12].
C1_ReturnsFoo11Baz12 ==
    (mpc = "done" /\ patch = C1Patch)
        => /\ DictAsMap(changed_lines_dict) = (11 :> Foo @@ 12 :> Baz)
           /\ line_numbers = <<11, 12>>

C1_Witness == mpc = "done" /\ patch = C1Patch /\ Len(changed_lines_dict) = 2

\* The line kinds of a unified diff body, as the specification names them
WellFormedHeader(l) == StartsWith(l, AtAt) /\ PlusDigits(l) # <<>>
NewStart(l) == ParseInt(PlusDigits(l))
DiffAdded(l) == l # <<>> /\ l[1] = "+" /\ ~StartsWith(l, Plus3)
DiffRemoved(l) == l # <<>> /\ l[1] = "-" /\ ~StartsWith(l, <<"-", "-", "-">>)
DiffContext(l) == l # <<>> /\ l[1] \notin {"+", "-"} /\ ~StartsWith(l, AtAt)

OnlyDiffLines(ls) ==
    \A i \in DOMAIN ls :
        WellFormedHeader(ls[i]) \/ DiffAdded(ls[i]) \/ DiffRemoved(ls[i]) \/ DiffContext(ls[i])

Max(S) == CHOOSE x \in S : \A y \in S : x >= y

\* indices of the well-formed headers among the first n lines
HeadersUpTo(ls, n) == {h \in 1..n : WellFormedHeader(ls[h])}

\* the post-image number of line i, counted from the nearest preceding header
PostImageNo(ls, i) ==
    LET h == Max(HeadersUpTo(ls, i - 1))
    IN  NewStart(ls[h])
          + Cardinality({j \in (h + 1)..(i - 1) : DiffAdded(ls[j]) \/ DiffContext(ls[j])})

\* the added lines among the first n lines, as their indices in order
RECURSIVE AddedUpTo(_, _)
AddedUpTo(ls, n) ==
    IF n = 0 THEN <<>>
    ELSE IF DiffAdded(ls[n]) THEN Append(AddedUpTo(ls, n - 1), n)
    ELSE AddedUpTo(ls, n - 1)

\* C2: in a patch made only of hunk headers, added, removed and context lines,
\* every added line is recorded under newStart + n (n = the added and context
\* lines since the nearest preceding header), removed lines do not advance the
\* counter, context lines advance it without an entry, and the map's value at
\* a key is the stripped content of the added line recorded there.
C2_AddedLineNumbers ==
    OnlyDiffLines(MLines) =>
        LET ls  == MLines
            idx == AddedUpTo(ls, MDone)
        IN  /\ Len(line_numbers) = Len(idx)
            /\ \A k \in DOMAIN idx :
                  HeadersUpTo(ls, idx[k]) # {}
                      => line_numbers[k] = PostImageNo(ls, idx[k])
            /\ DictKeys(changed_lines_dict) \in [DOMAIN changed_lines_dict -> {line_numbers[k] : k \in DOMAIN idx}]
            /\ \A k \in DOMAIN idx :
                  /\ DictHas(changed_lines_dict, line_numbers[k])
                  /\ LET last == Max({m \in DOMAIN idx : line_numbers[m] = line_numbers[k]})
                     IN  DictGet(changed_lines_dict, line_numbers[k])
                            = Strip(Tail(ls[idx[last]]))
            /\ HeadersUpTo(ls, MDone) # {}
                  => current_line = PostImageNo(ls, MDone + 1) - 1

C2_Witness ==
    /\ mpc = "done"
    /\ OnlyDiffLines(MLines)
    /\ \E h, c, r, a \in DOMAIN MLines :
          /\ h < c /\ c < r /\ r < a
          /\ WellFormedHeader(MLines[h]) /\ DiffContext(MLines[c])
          /\ DiffRemoved(MLines[r]) /\ DiffAdded(MLines[a])
          /\ DictHas(changed_lines_dict, NewStart(MLines[h]) + 1)

\* C10: a hunk header sets the counter to newStart - 1 whatever it was before,
\* the header itself is not counted, the first added or context line after it
\* is numbered newStart, and what is recorded after the header is what the
\* mapper records on the lines from that header on alone.
C10_HeaderResetsCounter ==
    LET ls == MLines
        hs == HeadersUpTo(ls, MDone)
    IN  hs # {} =>
          LET h     == Max(hs)
              alone == ExtractChangedLines(SubSeq(ls, h, MDone))
              k     == Len(alone.nums)
          IN  /\ current_line = alone.current_line
              /\ k <= Len(line_numbers)
              /\ SubSeq(line_numbers, Len(line_numbers) - k + 1, Len(line_numbers)) = alone.nums
              /\ MDone = h => current_line = NewStart(ls[h]) - 1
              /\ (MDone = h + 1 /\ IsAddedLine(ls[h + 1]))
                    => line_numbers[Len(line_numbers)] = NewStart(ls[h])
              /\ (MDone = h + 1 /\ IsCountedLine(ls[h + 1]))
                    => current_line = NewStart(ls[h])

C10_Witness ==
    /\ mpc = "done"
    /\ line_numbers = <<10, 2>>
    /\ Cardinality(HeadersUpTo(MLines, MDone)) = 2

\* C11 as stated: a patch without any hunk-header line returns an empty map
\* (and the mapper raises nothing: it has no raising step).
C11_AsStated ==
    (mpc = "done" /\ ~(\E i \in DOMAIN MLines : IsHeaderLine(MLines[i])))
        => /\ changed_lines_dict = <<>>
           /\ line_numbers = <<>>

\* a file-marker line, as the specification names it
FileMarker(l) == StartsWith(l, Plus3) \/ StartsWith(l, <<"-", "-", "-">>)

\* ls without its i-th element
Without(ls, i) == SubSeq(ls, 1, i - 1) \o SubSeq(ls, i + 1, Len(ls))

\* C12 as stated: a line beginning with +++ or --- adds no entry, appends
\* nothing and leaves the counter unchanged, so what the mapper holds after the
\* lines processed so far is what it holds on those lines without the marker.
C12_AsStated ==
    \A i \in 1..MDone :
        FileMarker(MLines[i])
            => MSt = ExtractChangedLines(Without(SubSeq(MLines, 1, MDone), i))

\* l without the later occurrences of a value
RECURSIVE FirstSeen(_)
FirstSeen(l) ==
    IF l = <<>> THEN <<>>
    ELSE LET front == FirstSeen(SubSeq(l, 1, Len(l) - 1))
             x     == l[Len(l)]
         IN  IF \E i \in DOMAIN front : front[i] = x THEN front ELSE Append(front, x)

\* C18 as stated: the validLines analyze_code hands to the parser are, element
\* for element and in order, the changed-line list the mapper returned, also
\* when a post-image number was recorded twice.
C18_AsStated ==
    mpc = "done" => AnalyzeCodeValidLines(changed_lines_dict) = line_numbers

\* C18 amended: the validLines handed to the parser are the changed-line list
\* in first-seen order with the repeated occurrences of a number left out;
\* they are the list itself when the mapper recorded no number twice.
C18_ValidLinesAreFirstSeenNumbers ==
    /\ AnalyzeCodeValidLines(changed_lines_dict) = FirstSeen(line_numbers)
    /\ FirstSeen(line_numbers) = line_numbers
          => AnalyzeCodeValidLines(changed_lines_dict) = line_numbers

\* a second hunk records a number of the first one again
C18_Witness ==
    /\ mpc = "done"
    /\ Len(line_numbers) = 3
    /\ AnalyzeCodeValidLines(changed_lines_dict) = <<line_numbers[1], line_numbers[2]>>
    /\ line_numbers[3] = line_numbers[2]
    /\ line_numbers[1] # line_numbers[2]

\* C19 as stated: every key of the returned map and every element of the
\* changed-line list is at least 1, also after a hunk header whose new-start
\* is 0.
C19_AsStated ==
    mpc = "done" =>
        /\ \A i \in DOMAIN changed_lines_dict : changed_lines_dict[i].k >= 1
        /\ \A i \in DOMAIN line_numbers : line_numbers[i] >= 1

\* C23 as stated: an empty line of the patch text does not advance the counter
\* and adds no entry, so what the mapper holds after the lines processed so
\* far is what it holds on those lines without the empty line.
C23_AsStated ==
    \A i \in 1..MDone :
        MLines[i] = <<>>
            => MSt = ExtractChangedLines(Without(SubSeq(MLines, 1, MDone), i))

----------------------------------------------------------------------------
(* CodeReviewBot._parse_ai_feedback *)

IssuePrefix == <<"I", "S", "S", "U", "E", ":">>
LinePrefix == <<"L", "I", "N", "E", ":">>
SuggestionPrefix == <<"S", "U", "G", "G", "E", "S", "T", "I", "O", "N", ":">>
Dashes == <<"-", "-", "-">>
SuggestionSep == <<"\n", "\n", "S", "u", "g", "g", "e", "s", "t", "i", "o", "n", ":", " ">>

\* s[n:]
From(s, n) == SubSeq(s, n + 1, Len(s))

\* x in list
InList(x, l) == \E i \in DOMAIN l : l[i] = x

\* the dict {} ; an absent body reads as "" and an absent line as 0
EmptyComment == [hasBody |-> FALSE, body |-> <<>>, hasLine |-> FALSE, line |-> 0]

\* line 173, on the stripped line
IsTerminator(l) == l = <<>> \/ l = Dashes

IsIssue(l) == ~IsTerminator(l) /\ StartsWith(l, IssuePrefix)

IsLineRef(l) == ~IsTerminator(l) /\ ~IsIssue(l) /\ StartsWith(l, LinePrefix)

IsSuggestion(l) ==
    ~IsTerminator(l) /\ ~IsIssue(l) /\ ~IsLineRef(l) /\ StartsWith(l, SuggestionPrefix)

IsOtherText(l) == ~IsTerminator(l) /\ ~IsIssue(l) /\ ~IsLineRef(l) /\ ~IsSuggestion(l)

\* Mutant: the body key is present (an empty body counts)
HasBodyKey(c) == c.hasBody

\* current_comment.get("body") is truthy
HasBodyText(c) == c.hasBody /\ c.body # <<>>

\* Mutant: the emitted comment stays in the slot
EmitIfBodyNoReset(cs, cur, at) ==
    IF HasBodyText(cur)
    THEN [comments |-> Append(cs, [c |-> cur, at |-> at]), cur |-> cur]
    ELSE [comments |-> cs, cur |-> cur]

\* lines 174-176 and 196-197; at records the line index of the terminator (the
\* number of lines plus one at the end of the text)
EmitIfBody(cs, cur, at) ==
    IF HasBodyText(cur)
    THEN [comments |-> Append(cs, [c |-> cur, at |-> at]), cur |-> EmptyComment]
    ELSE [comments |-> cs, cur |-> cur]

\* line 180
OnIssue(cur, l) == [cur EXCEPT !.hasBody = TRUE, !.body = Strip(From(l, 6))]

\* Mutant: there is no fallback, an invalid or missing number raises
FallbackLineRaises(valid) == [raised |-> TRUE, line |-> 0]

\* Mutant: an invalid or missing number falls back to the last valid line
FallbackLineLast(valid) ==
    IF valid = <<>> THEN [raised |-> TRUE, line |-> 0]
    ELSE [raised |-> FALSE, line |-> valid[Len(valid)]]

\* valid_line_numbers[0], lines 188 and 190: IndexError on an empty list
FallbackLine(valid) ==
    IF valid = <<>> THEN [raised |-> TRUE, line |-> 0]
    ELSE [raised |-> FALSE, line |-> valid[1]]

\* lines 182-190: re.search(...) is None when there are no digits, .group()
\* then raises AttributeError, which the except clause handles
ResolveLine(l, valid) ==
    LET line_text == Strip(From(l, 5))
        ds        == FirstDigits(line_text)
    IN  IF ds = <<>> THEN FallbackLine(valid)
        ELSE IF InList(ParseInt(ds), valid)
        THEN [raised |-> FALSE, line |-> ParseInt(ds)]
        ELSE FallbackLine(valid)

\* Mutant: a SUGGESTION: line replaces the body
OnSuggestionReplaces(cur, l) ==
    [cur EXCEPT !.hasBody = TRUE, !.body = SuggestionSep \o Strip(From(l, 11))]

\* lines 192-194
OnSuggestion(cur, l) ==
    [cur EXCEPT !.hasBody = TRUE,
                !.body = cur.body \o SuggestionSep \o Strip(From(l, 11))]

\* line 199
KeepWithLine(cs) ==
    LET kept == SelectSeq(cs, LAMBDA e : e.c.hasLine)
    IN  [i \in DOMAIN kept |-> [body |-> kept[i].c.body, line |-> kept[i].c.line, at |-> kept[i].at]]

----------------------------------------------------------------------------
(* Inputs of the parser *)

MaxFeedbackLines == 4

IssueA     == <<"I", "S", "S", "U", "E", ":", " ", "a">>
IssueBlank == <<"I", "S", "S", "U", "E", ":">>
IssuePadB  == <<" ", " ", "I", "S", "S", "U", "E", ":", " ", "b", " ">>
Line8      == <<"L", "I", "N", "E", ":", " ", "l", "i", "n", "e", " ", "8", "-", "1", "2">>
Line99     == <<"L", "I", "N", "E", ":", " ", "9", "9">>
LineX      == <<"L", "I", "N", "E", ":", " ", "x">>
SuggS      == <<"S", "U", "G", "G", "E", "S", "T", "I", "O", "N", ":", " ", "s">>
Note       == <<"n", "o", "t", "e">>
Blank      == <<" ">>

FeedbackLineShapes == {IssueA, IssueBlank, Line8, Line99, LineX, SuggS, Dashes}

\* ISSUE: unclear name / LINE: 8 / SUGGESTION: rename to total / --- /
\* ISSUE: missing check / LINE: 99 / ---
C3Text ==
    <<"I", "S", "S", "U", "E", ":", " ", "u", "n", "c", "l", "e", "a", "r", " ", "n", "a", "m", "e", "\n",
      "L", "I", "N", "E", ":", " ", "8", "\n",
      "S", "U", "G", "G", "E", "S", "T", "I", "O", "N", ":", " ", "r", "e", "n", "a", "m", "e", " ", "t", "o", " ", "t", "o", "t", "a", "l", "\n",
      "-", "-", "-", "\n",
      "I", "S", "S", "U", "E", ":", " ", "m", "i", "s", "s", "i", "n", "g", " ", "c", "h", "e", "c", "k", "\n",
      "L", "I", "N", "E", ":", " ", "9", "9", "\n",
      "-", "-", "-">>

C3Valid == <<5, 8, 12>>

\* further texts: blank-line terminators, padded lines, lines with none of
\* the prefixes, two comments, three blocks citing a valid, an out-of-range
\* and an unparsable number
LongTexts ==
    { C3Text,
      JoinLines(<<IssuePadB, Line8, Blank, IssueA, Line99>>),
      JoinLines(<<Note, IssueA, Note, Line8>>),
      JoinLines(<<Line8, Note, Dashes, IssueA>>),
      JoinLines(<<IssueA, SuggS, Line8, <<>>, Line99, Blank, IssueA, SuggS, <<>>>>),
      JoinLines(<<IssueA, Line8, Dashes, IssueA, Line99, Dashes, IssueA, LineX>>) }

FeedbackTexts ==
    {JoinLines(ls) : ls \in SeqsUpTo(FeedbackLineShapes, MaxFeedbackLines)} \cup LongTexts

ValidLists == {<<>>, C3Valid}

PLines == SplitLines(feedback_text)

\* line 172
PLine == Strip(PLines[pi])

InitParser ==
    /\ feedback_text \in FeedbackTexts
    /\ valid_line_numbers \in ValidLists
    /\ ppc = "loop"
    /\ pi = 1
    /\ comments = <<>>
    /\ current_comment = EmptyComment
    /\ presult = <<>>
    /\ perr = "none"
    /\ phist = <<>>
    /\ MapperOff
    /\ AuthOff
    /\ ResolverOff

PInLoop == ppc = "loop" /\ pi <= Len(PLines)

PAdvance ==
    /\ pi' = pi + 1
    /\ UNCHANGED <<feedback_text, valid_line_numbers, ppc, presult, perr, phist>>
    /\ UNCHANGED <<mapperVars, authVars, resolverVars>>

\* lines 173-177
ParseTerminator ==
    /\ PInLoop
    /\ IsTerminator(PLine)
    /\ LET r == EmitIfBody(comments, current_comment, pi)
       IN  comments' = r.comments /\ current_comment' = r.cur
    /\ PAdvance

\* lines 179-180
ParseIssue ==
    /\ PInLoop
    /\ IsIssue(PLine)
    /\ current_comment' = OnIssue(current_comment, PLine)
    /\ UNCHANGED comments
    /\ PAdvance

\* lines 181-190, no exception escapes
ParseLineRef ==
    /\ PInLoop
    /\ IsLineRef(PLine)
    /\ LET r == ResolveLine(PLine, valid_line_numbers)
       IN  /\ ~r.raised
           /\ current_comment' = [current_comment EXCEPT !.hasLine = TRUE, !.line = r.line]
    /\ UNCHANGED comments
    /\ PAdvance

\* lines 188 and 190: IndexError is not among the handled exceptions
ParseLineRefRaises ==
    /\ PInLoop
    /\ IsLineRef(PLine)
    /\ ResolveLine(PLine, valid_line_numbers).raised
    /\ ppc' = "error"
    /\ perr' = "IndexError"
    /\ UNCHANGED <<feedback_text, valid_line_numbers, pi, comments, current_comment, presult, phist>>
    /\ UNCHANGED <<mapperVars, authVars, resolverVars>>

\* lines 191-194
ParseSuggestion ==
    /\ PInLoop
    /\ IsSuggestion(PLine)
    /\ current_comment' = OnSuggestion(current_comment, PLine)
    /\ UNCHANGED comments
    /\ PAdvance

\* a line with none of the prefixes changes nothing
ParseOtherText ==
    /\ PInLoop
    /\ IsOtherText(PLine)
    /\ UNCHANGED <<comments, current_comment>>
    /\ PAdvance

\* lines 196-199
ParseReturn ==
    /\ ppc = "loop"
    /\ pi > Len(PLines)
    /\ LET r == EmitIfBody(comments, current_comment, pi)
       IN  /\ comments' = r.comments
           /\ presult' = KeepWithLine(r.comments)
    /\ ppc' = "done"
    /\ UNCHANGED <<feedback_text, valid_line_numbers, pi, current_comment, perr, phist>>
    /\ UNCHANGED <<mapperVars, authVars, resolverVars>>

NextParser ==
    \/ ParseTerminator
    \/ ParseIssue
    \/ ParseLineRef
    \/ ParseLineRefRaises
    \/ ParseSuggestion
    \/ ParseOtherText
    \/ ParseReturn

SpecParser == InitParser /\ [][NextParser]_vars

\* Mutant: the pending comment is kept between calls (state on the object
\* instead of a local)
StaleLocals == [comments |-> <<>>, current_comment |-> current_comment]

\* lines 168-169: every call starts with its own empty locals
FreshLocals == [comments |-> <<>>, current_comment |-> EmptyComment]

\* the (line, body) pairs of the list a call returned
ReturnValue == [i \in DOMAIN presult |-> [line |-> presult[i].line, body |-> presult[i].body]]

\* several calls, one after the other, of the static method
MaxParseCalls == 3

ReparseTexts ==
    { C3Text,
      JoinLines(<<Line8, Note, Dashes, IssueA>>),
      IssueA,
      Line8 }

InitReparse ==
    /\ feedback_text \in ReparseTexts
    /\ valid_line_numbers \in ValidLists
    /\ ppc = "loop"
    /\ pi = 1
    /\ comments = <<>>
    /\ current_comment = EmptyComment
    /\ presult = <<>>
    /\ perr = "none"
    /\ phist = <<>>
    /\ MapperOff
    /\ AuthOff
    /\ ResolverOff

\* the previous call has returned or raised; the next call gets its arguments
ParseCall ==
    /\ ppc \in {"done", "error"}
    /\ Len(phist) + 1 < MaxParseCalls
    /\ phist' = Append(phist, [text |-> feedback_text, valid |-> valid_line_numbers,
                               outcome |-> ppc, result |-> ReturnValue])
    /\ feedback_text' \in ReparseTexts
    /\ valid_line_numbers' \in ValidLists
    /\ ppc' = "loop"
    /\ pi' = 1
    /\ comments' = FreshLocals.comments
    /\ current_comment' = FreshLocals.current_comment
    /\ presult' = <<>>
    /\ perr' = "none"
    /\ UNCHANGED <<mapperVars, authVars, resolverVars>>

NextReparse ==
    \/ NextParser
    \/ ParseCall

SpecReparse == InitReparse /\ [][NextReparse]_vars

----------------------------------------------------------------------------
(* Claims about the parser *)

\* the returned comments as {line, body}
Returned == [i \in DOMAIN presult |-> [line |-> presult[i].line, body |-> presult[i].body]]

UnclearName ==
    <<"u", "n", "c", "l", "e", "a", "r", " ", "n", "a", "m", "e", "\n", "\n",
      "S", "u", "g", "g", "e", "s", "t", "i", "o", "n", ":", " ",
      "r", "e", "n", "a", "m", "e", " ", "t", "o", " ", "t", "o", "t", "a", "l">>

MissingCheck == <<"m", "i", "s", "s", "i", "n", "g", " ", "c", "h", "e", "c", "k">>

\* the line a LINE: line cites, as the specification words it
CitedOrFirst(l, valid) ==
    LET ds == FirstDigits(From(l, 5))
    IN  IF ds # <<>> /\ InList(ParseInt(ds), valid) THEN ParseInt(ds) ELSE valid[1]

\* C3: with non-empty validLines a LINE: line sets the comment's line to the
\* first run of digits of the remainder when that number is in validLines and
\* to validLines[0] otherwise; validLines = [5, 8, 12] and the two-block text
\* give [{8, "unclear name\n\nSuggestion: rename to total"}, {5, "missing check"}].
C3_LineCitedOrFirstValid ==
    /\ (/\ ppc \in {"loop", "done"}
        /\ pi > 1
        /\ valid_line_numbers # <<>>
        /\ IsLineRef(Strip(PLines[pi - 1])))
          => /\ current_comment.hasLine
             /\ current_comment.line = CitedOrFirst(Strip(PLines[pi - 1]), valid_line_numbers)
    /\ (ppc = "done" /\ feedback_text = C3Text /\ valid_line_numbers = C3Valid)
          => Returned = <<[line |-> 8, body |-> UnclearName],
                          [line |-> 5, body |-> MissingCheck]>>

C3_Witness ==
    /\ ppc = "done"
    /\ feedback_text = C3Text
    /\ valid_line_numbers = C3Valid
    /\ Len(presult) = 2
    /\ presult[2].line = 5

\* the block that ends at the terminator with index at
BlockOf(at) ==
    LET terms == {t \in 1..(at - 1) : IsTerminator(Strip(PLines[t]))}
        start == IF terms = {} THEN 1 ELSE Max(terms) + 1
    IN  {Strip(PLines[j]) : j \in start..(at - 1)}

\* C4 as stated: a block with an ISSUE: line and no LINE: line produces no
\* comment in the returned list, whatever the blocks before it contain.
C4_AsStated ==
    ppc = "done" =>
        \A k \in DOMAIN presult :
            LET b == BlockOf(presult[k].at)
            IN  ~((\E l \in b : IsIssue(l)) /\ ~(\E l \in b : IsLineRef(l)))

\* C5 as stated: with empty validLines parse raises no error and returns the
\* empty sequence, for every text.
C5_AsStated ==
    valid_line_numbers = <<>> =>
        /\ ppc # "error"
        /\ ppc = "done" => presult = <<>>

\* the positions where a pending comment is emitted: a terminator line, or the
\* end of the text
EmitPositions == {t \in 1..(Len(PLines) + 1) : t > Len(PLines) \/ IsTerminator(Strip(PLines[t]))}

\* the stripped lines of the block that ends at position at, in order
BlockLines(at) ==
    LET terms == {t \in 1..(at - 1) : IsTerminator(Strip(PLines[t]))}
        start == IF terms = {} THEN 1 ELSE Max(terms) + 1
    IN  [j \in 1..(at - start) |-> Strip(PLines[start + j - 1])]

IssueText(l) == Strip(From(l, 6))

HasLineRef(b) == \E j \in DOMAIN b : IsLineRef(b[j])

\* the block has an ISSUE: line with non-empty text
HasIssueText(b) == \E j \in DOMAIN b : IsIssue(b[j]) /\ IssueText(b[j]) # <<>>

\* the block's last ISSUE: line has non-empty text
LastIssueHasText(b) ==
    /\ \E j \in DOMAIN b : IsIssue(b[j])
    /\ IssueText(b[Max({j \in DOMAIN b : IsIssue(b[j])})]) # <<>>

ReturnedAt(t) == {k \in DOMAIN presult : presult[k].at = t}

\* C13 as stated: with non-empty validLines the call raises nothing and every
\* block with an ISSUE: line of non-empty text and a LINE: line yields exactly
\* one returned comment, whatever number the LINE: line cites.
C13_AsStated ==
    valid_line_numbers # <<>> =>
        /\ ppc # "error"
        /\ ppc = "done" =>
              \A t \in EmitPositions :
                  (HasIssueText(BlockLines(t)) /\ HasLineRef(BlockLines(t)))
                      => Cardinality(ReturnedAt(t)) = 1

\* C13 amended: with non-empty validLines the call raises nothing and every
\* block whose last ISSUE: line has non-empty text and that has a LINE: line
\* yields exactly one returned comment, whether the cited number is in
\* validLines, outside it, or unparsable.
C13_CommentNotLostByCitedLine ==
    valid_line_numbers # <<>> =>
        /\ ppc # "error"
        /\ ppc = "done" =>
              \A t \in EmitPositions :
                  (LastIssueHasText(BlockLines(t)) /\ HasLineRef(BlockLines(t)))
                      => Cardinality(ReturnedAt(t)) = 1

\* three blocks citing a valid, an out-of-range and an unparsable number
C13_Witness ==
    /\ ppc = "done"
    /\ valid_line_numbers # <<>>
    /\ \A b \in {<<IssueA, Line8>>, <<IssueA, Line99>>, <<IssueA, LineX>>} :
          \E t \in EmitPositions :
              /\ BlockLines(t) = b
              /\ Cardinality(ReturnedAt(t)) = 1

\* C15: a call's outcome depends on its arguments only: whatever calls came
\* before it, a call with the text and the validLines of an earlier call
\* returns the same comment sequence (or raises as that call did), and no step
\* of a call changes validLines.
C15_ReparseSameResult ==
    [][/\ ppc = "loop" => valid_line_numbers' = valid_line_numbers
       /\ ppc' \in {"done", "error"} =>
              \A k \in DOMAIN phist' :
                  (/\ phist'[k].text = feedback_text'
                   /\ phist'[k].valid = valid_line_numbers')
                      => /\ phist'[k].outcome = ppc'
                         /\ phist'[k].result = ReturnValue'
    ]_vars

\* the first and the third call have the same arguments and returned a
\* comment; the call between them left a line without a body pending
C15_Witness ==
    /\ ppc = "done"
    /\ Len(phist) = 2
    /\ phist[1].text = feedback_text
    /\ phist[1].valid = valid_line_numbers
    /\ phist[2].text = Line8
    /\ phist[2].outcome = "done"
    /\ Len(presult) = 1

\* C20: with non-empty validLines every returned comment has a non-empty
\* body and a line that is an element of validLines, whatever the text.
C20_ReturnedBodyAndValidLine ==
    (ppc = "done" /\ valid_line_numbers # <<>>) =>
        \A k \in DOMAIN presult :
            /\ presult[k].body # <<>>
            /\ InList(presult[k].line, valid_line_numbers)

\* a block whose ISSUE: line has no text and that cites a number outside
\* validLines returned nothing, and a comment was returned with the first
\* valid line
C20_Witness ==
    /\ ppc = "done"
    /\ valid_line_numbers = C3Valid
    /\ \E k \in DOMAIN presult : presult[k].line = C3Valid[1]
    /\ \E t \in EmitPositions :
          /\ BlockLines(t) = <<IssueBlank, Line99>>
          /\ ReturnedAt(t) = {}

\* the loop is at a terminator line or past the last line
AtEmitPosition == pi > Len(PLines) \/ IsTerminator(Strip(PLines[pi]))

\* C21: at a blank line, a --- line and the end of the text the pending comment
\* is emitted exactly when its body is non-empty, and after a terminator line
\* the slot is then empty; with an empty body the step changes neither the
\* emitted comments nor the slot; no other step emits; every emission is at a
\* later position than the ones before it, and the result keeps that order.
C21_EmitAndResetOnTerminator ==
    [][ppc = "loop" =>
          IF AtEmitPosition
          THEN /\ IF current_comment.hasBody /\ current_comment.body # <<>>
                  THEN /\ comments' = Append(comments, [c |-> current_comment, at |-> pi])
                       /\ pi <= Len(PLines) => current_comment' = EmptyComment
                       /\ \A k \in DOMAIN comments : comments[k].at < pi
                  ELSE /\ comments' = comments
                       /\ current_comment' = current_comment
               /\ pi > Len(PLines) =>
                     /\ \A a, b \in DOMAIN presult' :
                           a < b => presult'[a].at < presult'[b].at
                     /\ \A a \in DOMAIN presult' :
                           \E k \in DOMAIN comments' :
                               /\ comments'[k].at = presult'[a].at
                               /\ comments'[k].c.body = presult'[a].body
                               /\ comments'[k].c.line = presult'[a].line
          ELSE comments' = comments
    ]_vars

\* two comments were returned, and a terminator between them found an empty
\* body and emitted nothing
C21_Witness ==
    /\ ppc = "done"
    /\ Len(presult) = 2
    /\ \E t \in EmitPositions :
          /\ presult[1].at < t
          /\ t < presult[2].at
          /\ \A k \in DOMAIN comments : comments[k].at # t

\* "\n\nSuggestion: <trimmed text>" for each SUGGESTION: line of b, in order
RECURSIVE SuggestionSegments(_)
SuggestionSegments(b) ==
    IF b = <<>> THEN <<>>
    ELSE IF IsSuggestion(Head(b))
         THEN SuggestionSep \o Strip(From(Head(b), 11)) \o SuggestionSegments(Tail(b))
         ELSE SuggestionSegments(Tail(b))

\* the body the specification gives a block with an ISSUE: line
BodyOfBlock(b) ==
    LET last == Max({j \in DOMAIN b : IsIssue(b[j])})
    IN  IssueText(b[last]) \o SuggestionSegments(SubSeq(b, last + 1, Len(b)))

\* C22: the body of a comment emitted for a block with an ISSUE: line is the
\* trimmed remainder of the block's last ISSUE: line followed by one
\* "\n\nSuggestion: <trimmed text>" segment for each SUGGESTION: line after it,
\* in order; what the block accumulated before that ISSUE: line is gone.
C22_BodyIsLastIssuePlusSuggestions ==
    \A k \in DOMAIN comments :
        LET b == BlockLines(comments[k].at)
        IN  (\E j \in DOMAIN b : IsIssue(b[j]))
                => comments[k].c.body = BodyOfBlock(b)

\* a returned comment of a block with a suggestion before its ISSUE: line and
\* two after it
C22_Witness ==
    /\ ppc = "done"
    /\ \E k \in DOMAIN comments :
          /\ BlockLines(comments[k].at) = <<SuggS, IssueA, SuggS, SuggS>>
          /\ Len(comments[k].c.body) = 1 + 2 * (Len(SuggestionSep) + 1)

----------------------------------------------------------------------------
(* GitHubAppAuth *)

JwtMargin == 60
JwtLifetime == 600
TokenMargin == 60

AppId == "app"

\* datetime.strptime(s, "%Y-%m-%dT%H:%M:%SZ").timestamp(): the fields of the
\* string are read as a naive datetime, which timestamp() takes as local time
Timestamp(iso) == iso.h * 3600 + iso.m * 60 + iso.s - tz

\* the server's rendering of the UTC instant t (a second of the model's day)
IsoOf(t) == [kind |-> "iso", h |-> t \div 3600, m |-> (t % 3600) \div 60, s |-> t % 60]

\* a body without the key, and a value strptime rejects
NoExpiresAt == [kind |-> "missing", h |-> 0, m |-> 0, s |-> 0]
BadExpiresAt == [kind |-> "malformed", h |-> 0, m |-> 0, s |-> 0]

IsIso(x) == x.kind = "iso"

\* no response yet; in a body, token = None stands for a body without the key,
\* and scope is the installation the server issued the token for
NoBody == [token |-> None, expires_at |-> NoExpiresAt, scope |-> "none"]

\* Mutant: the margin test admits now = expires_at - 60
CacheFreshInclusive(t) ==
    installation_token # None /\ t <= token_expires_at - TokenMargin

\* Mutant: the cache is never used
CacheNeverFresh(t) == installation_token # None /\ t < 0

\* line 50
CacheFresh(t) == installation_token # None /\ t < token_expires_at - TokenMargin

\* Mutant: the cached assertion is reused up to its expiry, without margin
JwtFreshNoMargin(t) == jwt_token # None /\ t < jwt_expires_at

\* Mutant: the margin test admits now = jwt_expires_at - 60
JwtFreshInclusive(t) == jwt_token # None /\ t <= jwt_expires_at - JwtMargin

\* line 26
JwtFresh(t) == jwt_token # None /\ t < jwt_expires_at - JwtMargin

IdleFlow ==
    [pc |-> "idle", inst |-> "none", now |-> 0, jwt |-> None, resp |-> NoBody,
     status |-> "none", ret |-> None, err |-> "none", exch |-> 0, calls |-> 0,
     pre |-> [token |-> None, exp |-> 0]]

AtRest(f) == flow[f].pc \in {"idle", "done", "error"}

\* the critical section around a call, when the callers use one
MayEnter(f) == serialized => lock = 0
Enter(f) == IF serialized THEN f ELSE lock
Leave(f) == IF serialized THEN 0 ELSE lock

\* raise: the call ends without a return value
Raise(f, e) ==
    /\ flow' = [flow EXCEPT ![f].pc = "error", ![f].err = e]
    /\ lock' = Leave(f)

\* lines 49-51: a fresh cached token is returned at once
CallCached(f, i) ==
    /\ AtRest(f)
    /\ MayEnter(f)
    /\ CacheFresh(now)
    /\ flow' = [flow EXCEPT ![f] =
                 [IdleFlow EXCEPT !.pc = "done", !.inst = i, !.now = now,
                                  !.ret = installation_token,
                                  !.calls = flow[f].calls + 1,
                                  !.pre = [token |-> installation_token,
                                           exp |-> token_expires_at]]]
    /\ ncalls' = ncalls + 1
    /\ order' = Append(order, f)
    /\ UNCHANGED lock
    /\ UNCHANGED <<jwt_token, jwt_expires_at, installation_token, token_expires_at,
                   now, tz, nexch, token_src, serialized>>
    /\ UNCHANGED <<mapperVars, parserVars, resolverVars>>

\* lines 49-50: no token, or now >= token_expires_at - 60
CallMiss(f, i) ==
    /\ AtRest(f)
    /\ MayEnter(f)
    /\ ~CacheFresh(now)
    /\ flow' = [flow EXCEPT ![f] =
                 [IdleFlow EXCEPT !.pc = "jwt", !.inst = i, !.now = now,
                                  !.calls = flow[f].calls + 1,
                                  !.pre = [token |-> installation_token,
                                           exp |-> token_expires_at]]]
    /\ ncalls' = ncalls + 1
    /\ order' = Append(order, f)
    /\ lock' = Enter(f)
    /\ UNCHANGED <<jwt_token, jwt_expires_at, installation_token, token_expires_at,
                   now, tz, nexch, token_src, serialized>>
    /\ UNCHANGED <<mapperVars, parserVars, resolverVars>>

\* jwt.encode(payload, key, "RS256"): the signature is a function of the
\* payload, and with one app id the payload is determined by iat
SignedJwt(payload) == payload.iat

\* lines 25-27
CreateJwtCached(f) ==
    /\ flow[f].pc = "jwt"
    /\ JwtFresh(now)
    /\ flow' = [flow EXCEPT ![f].pc = "post", ![f].jwt = jwt_token]
    /\ UNCHANGED <<jwt_token, jwt_expires_at, installation_token, token_expires_at,
                   now, tz, nexch, token_src, ncalls, serialized, lock, order>>
    /\ UNCHANGED <<mapperVars, parserVars, resolverVars>>

\* lines 25-37
CreateJwtMint(f) ==
    /\ flow[f].pc = "jwt"
    /\ ~JwtFresh(now)
    /\ LET signed == SignedJwt([iat |-> now, exp |-> now + JwtLifetime, iss |-> AppId])
       IN  /\ jwt_token' = signed
           /\ jwt_expires_at' = now + JwtLifetime
           /\ flow' = [flow EXCEPT ![f].pc = "post", ![f].jwt = signed]
    /\ UNCHANGED <<installation_token, token_expires_at,
                   now, tz, nexch, token_src, ncalls, serialized, lock, order>>
    /\ UNCHANGED <<mapperVars, parserVars, resolverVars>>

\* what the server may put into a success response to the n-th exchange, a
\* POST to /app/installations/{i}/access_tokens; the token it issues is
\* numbered n and is a token of installation i
ExpiryDeltas == {120, 3600}

SuccessBodies(n, i) ==
    [token : {n, None},
     expires_at : {IsoOf(now + d) : d \in ExpiryDeltas} \cup {NoExpiresAt, BadExpiresAt},
     scope : {i}]

\* Mutant: a failed exchange returns the token cached before
PostFailsReturnsStale(f) ==
    /\ flow[f].pc = "post"
    /\ nexch' = nexch + 1
    /\ flow' = [flow EXCEPT ![f].pc = "done", ![f].ret = installation_token,
                            ![f].status = "fail", ![f].exch = flow[f].exch + 1]
    /\ lock' = Leave(f)
    /\ UNCHANGED <<jwt_token, jwt_expires_at, installation_token, token_expires_at,
                   now, tz, token_src, ncalls, serialized, order>>
    /\ UNCHANGED <<mapperVars, parserVars, resolverVars>>

\* lines 59-63: the exchange call answers with a non-success status
PostFails(f) ==
    /\ flow[f].pc = "post"
    /\ nexch' = nexch + 1
    /\ flow' = [flow EXCEPT ![f].pc = "error", ![f].err = "HTTPError",
                            ![f].status = "fail", ![f].exch = flow[f].exch + 1]
    /\ lock' = Leave(f)
    /\ UNCHANGED <<jwt_token, jwt_expires_at, installation_token, token_expires_at,
                   now, tz, token_src, ncalls, serialized, order>>
    /\ UNCHANGED <<mapperVars, parserVars, resolverVars>>

\* lines 59-65: the exchange call answers with a success status
PostOk(f) ==
    /\ flow[f].pc = "post"
    /\ \E body \in SuccessBodies(nexch + 1, flow[f].inst) :
          /\ nexch' = nexch + 1
          /\ flow' = [flow EXCEPT ![f].pc = "token", ![f].resp = body,
                                  ![f].status = "ok", ![f].exch = flow[f].exch + 1]
    /\ UNCHANGED <<jwt_token, jwt_expires_at, installation_token, token_expires_at,
                   now, tz, token_src, ncalls, serialized, lock, order>>
    /\ UNCHANGED <<mapperVars, parserVars, resolverVars>>

\* line 66
StoreToken(f) ==
    /\ flow[f].pc = "token"
    /\ flow[f].resp.token # None
    /\ installation_token' = flow[f].resp.token
    /\ token_src' = flow[f].resp
    /\ flow' = [flow EXCEPT ![f].pc = "expiry"]
    /\ UNCHANGED <<jwt_token, jwt_expires_at, token_expires_at,
                   now, tz, nexch, ncalls, serialized, lock, order>>
    /\ UNCHANGED <<mapperVars, parserVars, resolverVars>>

\* line 66: data["token"] on a body without the key
StoreTokenRaises(f) ==
    /\ flow[f].pc = "token"
    /\ flow[f].resp.token = None
    /\ Raise(f, "KeyError")
    /\ UNCHANGED <<jwt_token, jwt_expires_at, installation_token, token_expires_at,
                   now, tz, nexch, token_src, ncalls, serialized, order>>
    /\ UNCHANGED <<mapperVars, parserVars, resolverVars>>

\* lines 69-72
StoreExpiry(f) ==
    /\ flow[f].pc = "expiry"
    /\ IsIso(flow[f].resp.expires_at)
    /\ token_expires_at' = Timestamp(flow[f].resp.expires_at)
    /\ flow' = [flow EXCEPT ![f].pc = "return"]
    /\ UNCHANGED <<jwt_token, jwt_expires_at, installation_token,
                   now, tz, nexch, token_src, ncalls, serialized, lock, order>>
    /\ UNCHANGED <<mapperVars, parserVars, resolverVars>>

\* lines 69-71: data["expires_at"] is absent (KeyError) or strptime rejects it
\* (ValueError); line 66 has already run
StoreExpiryRaises(f) ==
    /\ flow[f].pc = "expiry"
    /\ ~IsIso(flow[f].resp.expires_at)
    /\ Raise(f, IF flow[f].resp.expires_at.kind = "missing" THEN "KeyError" ELSE "ValueError")
    /\ UNCHANGED <<jwt_token, jwt_expires_at, installation_token, token_expires_at,
                   now, tz, nexch, token_src, ncalls, serialized, order>>
    /\ UNCHANGED <<mapperVars, parserVars, resolverVars>>

\* line 74
ReturnToken(f) ==
    /\ flow[f].pc = "return"
    /\ flow' = [flow EXCEPT ![f].pc = "done", ![f].ret = installation_token]
    /\ lock' = Leave(f)
    /\ UNCHANGED <<jwt_token, jwt_expires_at, installation_token, token_expires_at,
                   now, tz, nexch, token_src, ncalls, serialized, order>>
    /\ UNCHANGED <<mapperVars, parserVars, resolverVars>>

\* time.time() moves on.  The clock is read at line 49, at line 25 and by the
\* server when it answers; a tick at any other position of a call commutes
\* with the call's next step, so ticks are taken only before a clock read.
ClockOffsets == {60, 120, 480, 540}

BeforeClockRead(f) == flow[f].pc \in {"idle", "done", "error", "jwt", "post"}

DayStart == 10 * 3600

TickTo(offsets) ==
    /\ \E f \in DOMAIN flow : BeforeClockRead(f)
    /\ \E d \in offsets :
          /\ DayStart + d > now
          /\ now' = DayStart + d
    /\ UNCHANGED <<jwt_token, jwt_expires_at, installation_token, token_expires_at,
                   tz, flow, nexch, token_src, ncalls, serialized, lock, order>>
    /\ UNCHANGED <<mapperVars, parserVars, resolverVars>>

Installations == {"instA", "instB"}

TzOffsets == {0 - 3600, 0, 3600}

MaxCalls == 3

\* __init__, lines 16-21, and one caller
InitAuth ==
    /\ jwt_token = None
    /\ jwt_expires_at = 0
    /\ installation_token = None
    /\ token_expires_at = 0
    /\ now = DayStart
    /\ tz \in TzOffsets
    /\ flow = [f \in {1} |-> IdleFlow]
    /\ nexch = 0
    /\ token_src = [token |-> 0, expires_at |-> [kind |-> "missing", h |-> 0, m |-> 0, s |-> 0],
                    scope |-> "none"]
    /\ ncalls = 0
    /\ serialized = FALSE
    /\ lock = 0
    /\ order = <<>>
    /\ MapperOff
    /\ ParserOff
    /\ ResolverOff

Step(f) ==
    \/ CreateJwtCached(f)
    \/ CreateJwtMint(f)
    \/ PostFails(f)
    \/ PostOk(f)
    \/ StoreToken(f)
    \/ StoreTokenRaises(f)
    \/ StoreExpiry(f)
    \/ StoreExpiryRaises(f)
    \/ ReturnToken(f)

NextAuth ==
    \/ \E i \in Installations : ncalls < MaxCalls /\ CallCached(1, i)
    \/ \E i \in Installations : ncalls < MaxCalls /\ CallMiss(1, i)
    \/ Step(1)
    \/ TickTo(ClockOffsets)

SpecAuth == InitAuth /\ [][NextAuth]_vars

\* two callers of one manager, each calling once for the same installation,
\* with or without a critical section around the call; the manager holds
\* nothing or an expired token
RaceInstallation == "instA"

OldBody == [token |-> 1, expires_at |-> IsoOf(DayStart + tz), scope |-> RaceInstallation]

RaceClockOffsets == {60, 120}

InitRace ==
    /\ jwt_token = None
    /\ jwt_expires_at = 0
    /\ tz \in TzOffsets
    /\ \/ /\ installation_token = None
          /\ token_expires_at = 0
          /\ nexch = 0
          /\ token_src = NoBody
       \/ /\ installation_token = OldBody.token
          /\ token_expires_at = Timestamp(OldBody.expires_at)
          /\ nexch = 1
          /\ token_src = OldBody
    /\ now = DayStart
    /\ flow = [f \in {1, 2} |-> IdleFlow]
    /\ ncalls = 0
    /\ serialized \in BOOLEAN
    /\ lock = 0
    /\ order = <<>>
    /\ MapperOff
    /\ ParserOff
    /\ ResolverOff

NextRace ==
    \/ \E f \in {1, 2} : flow[f].calls = 0 /\ CallCached(f, RaceInstallation)
    \/ \E f \in {1, 2} : flow[f].calls = 0 /\ CallMiss(f, RaceInstallation)
    \/ \E f \in {1, 2} : Step(f)
    \/ TickTo(RaceClockOffsets)

SpecRace == InitRace /\ [][NextRace]_vars

----------------------------------------------------------------------------
(* Claims about the token cache *)

\* the cache test of line 50 on what the call found in the cache
FoundFresh(fl) == fl.pre.token # None /\ fl.now < fl.pre.exp - 60

\* C6: one sequential caller.  A call that finds a cached token with
\* now < expiresAt - 60 makes no exchange call and returns that token, the
\* cache unchanged; any other call makes exactly one exchange call and, when it
\* succeeds, caches and returns the token and the expiry of that response.
C6_CachedOrOneExchange ==
    LET fl == flow[1]
    IN  /\ fl.exch <= 1
        /\ (fl.pc # "idle" /\ FoundFresh(fl))
              => /\ fl.pc = "done"
                 /\ fl.exch = 0
                 /\ fl.ret = fl.pre.token
                 /\ installation_token = fl.pre.token
                 /\ token_expires_at = fl.pre.exp
        /\ (fl.pc \in {"done", "error"} /\ ~FoundFresh(fl)) => fl.exch = 1
        /\ (fl.pc = "done" /\ ~FoundFresh(fl))
              => /\ fl.status = "ok"
                 /\ fl.resp.token # None
                 /\ fl.ret = fl.resp.token
                 /\ installation_token = fl.resp.token
                 /\ token_expires_at = Timestamp(fl.resp.expires_at)

\* three calls and two exchanges: one call was answered from the cache, and
\* the last one replaced an expired token
C6_Witness ==
    /\ ncalls = 3
    /\ nexch = 2
    /\ flow[1].pc = "done"
    /\ flow[1].exch = 1
    /\ flow[1].pre.token # None
    /\ flow[1].ret # flow[1].pre.token

\* C7: when the exchange call answers with a non-success status the call ends
\* in an error, returns no token, and leaves the cached token and its expiry
\* as they were before the call.
C7_FailedExchangeKeepsCache ==
    flow[1].status = "fail"
        => /\ flow[1].pc = "error"
           /\ flow[1].err = "HTTPError"
           /\ flow[1].ret = None
           /\ installation_token = flow[1].pre.token
           /\ token_expires_at = flow[1].pre.exp

C7_Witness ==
    /\ flow[1].status = "fail"
    /\ flow[1].pc = "error"
    /\ flow[1].pre.token # None
    /\ installation_token = flow[1].pre.token

\* C8 as stated: between and after calls, also after a call that fails on a
\* success response without a usable expires_at, the cached token and the
\* cached expiry come from the same exchange response.
C8_AsStated ==
    (AtRest(1) /\ installation_token # None)
        => /\ token_src.token = installation_token
           /\ IsIso(token_src.expires_at)
           /\ token_expires_at = Timestamp(token_src.expires_at)

\* C9 as stated, second half: with the calls serialized at most one of the two
\* callers performs an exchange.
C9_AsStated == serialized => ~(flow[1].exch = 1 /\ flow[2].exch = 1)

\* C9 amended: with the calls serialized, when the first caller's exchange
\* succeeded and the credential it cached is within its validity (less the
\* margin) at the second call, the second caller performs no exchange.
C9_SerializedSecondUsesCache ==
    \A a, b \in DOMAIN flow :
        (/\ serialized
         /\ order = <<a, b>>
         /\ flow[a].exch = 1
         /\ flow[a].pc = "done"
         /\ flow[b].now < Timestamp(flow[a].resp.expires_at) - 60)
            => /\ flow[b].exch = 0
               /\ flow[b].pc = "done"
               /\ flow[b].ret = flow[a].ret

\* C9, first half: without serialization both callers found the same expired
\* cache and both performed the exchange, though the first one's succeeded with
\* a credential that was valid at the second call.
C9_Witness ==
    \E a, b \in DOMAIN flow :
        /\ ~serialized
        /\ order = <<a, b>>
        /\ flow[a].pre = flow[b].pre
        /\ flow[a].pre.token # None
        /\ flow[a].exch = 1 /\ flow[b].exch = 1
        /\ flow[a].pc = "done" /\ flow[b].pc = "done"
        /\ flow[b].now < Timestamp(flow[a].resp.expires_at) - 60

\* the margin test the specification states for both credential kinds
WithinValidity(credential, expiresAt) == credential # None /\ now < expiresAt - 60

\* C14: createAssertion returns the cached assertion, the cache untouched,
\* exactly when one is cached and now < expiresAt - 60; otherwise it signs a
\* new one with issuedAt = now, caches it with expiresAt = now + 600 and
\* returns it.  A call is answered from the installation-token cache exactly
\* when the same test holds of the cached installation token.
C14_AssertionCachedOrMinted ==
    [][\A f \in DOMAIN flow :
          /\ (flow[f].pc = "jwt" /\ flow'[f].pc # "jwt")
                => IF WithinValidity(jwt_token, jwt_expires_at)
                   THEN /\ flow'[f].jwt = jwt_token
                        /\ jwt_token' = jwt_token
                        /\ jwt_expires_at' = jwt_expires_at
                   ELSE /\ jwt_token' = SignedJwt([iat |-> now, exp |-> now + 600, iss |-> AppId])
                        /\ jwt_expires_at' = now + 600
                        /\ flow'[f].jwt = jwt_token'
          /\ (AtRest(f) /\ flow'[f].calls = flow[f].calls + 1)
                => (flow'[f].pc = "done"
                       <=> WithinValidity(installation_token, token_expires_at))
    ]_vars

\* a call that started after the cached assertion was signed goes to the
\* exchange with that assertion
C14_Witness ==
    /\ flow[1].pc = "post"
    /\ flow[1].jwt = jwt_token
    /\ jwt_expires_at - 600 < flow[1].now
    /\ flow[1].now < jwt_expires_at - 60

\* the Unix second count of the UTC instant an expires_at string names (now
\* counts the seconds since 00:00:00Z of the same day)
UtcSeconds(iso) == iso.h * 3600 + iso.m * 60 + iso.s

\* C16 as stated: after a call whose exchange succeeded the cached expiresAt
\* is the Unix second count of the server's UTC expires_at instant, whatever
\* the local time-zone offset of the process.
C16_AsStated ==
    (flow[1].pc = "done" /\ flow[1].exch = 1)
        => token_expires_at = UtcSeconds(flow[1].resp.expires_at)

\* C17 as stated: the token a call returns was issued by an exchange for the
\* installation the call names; a call for another installation made inside
\* the validity of a cached token does not return that token.
C17_AsStated ==
    (flow[1].pc = "done" /\ flow[1].ret = token_src.token)
        => token_src.scope = flow[1].inst

\* C24: the clock never goes back; the assertion a call takes to its exchange
\* is, at the moment the call obtains it, either signed at that moment with
\* expiresAt = now + 600 or the cached one with now < expiresAt - 60, and the
\* exchange is made from that position with that assertion as bearer.
C24_BearerValidWhenObtained ==
    [][/\ now' >= now
       /\ \A f \in DOMAIN flow :
             /\ (flow[f].pc = "jwt" /\ flow'[f].pc # "jwt")
                   => /\ flow'[f].pc = "post"
                      /\ flow'[f].jwt = jwt_token'
                      /\ now < jwt_expires_at' - 60
                      /\ \/ jwt_expires_at' = now + 600
                         \/ /\ jwt_token' = jwt_token
                            /\ jwt_expires_at' = jwt_expires_at
                            /\ now < jwt_expires_at - 60
             /\ flow'[f].exch > flow[f].exch
                   => /\ flow[f].pc = "post"
                      /\ flow'[f].jwt = flow[f].jwt
    ]_vars

\* the second or a later call found the cached assertion at or past
\* expiresAt - 60 and made its exchange with one signed in that call
C24_Witness ==
    /\ flow[1].calls >= 2
    /\ flow[1].exch = 1
    /\ flow[1].now >= DayStart + 540
    /\ flow[1].jwt = jwt_token
    /\ jwt_expires_at >= flow[1].now + 600

----------------------------------------------------------------------------
(* resolve_bot_comments *)

\* sub in s
Contains(s, sub) ==
    \E i \in 1..(Len(s) - Len(sub) + 1) : SubSeq(s, i, i + Len(sub) - 1) = sub

ResolvedMarker ==
    <<"*", "T", "h", "i", "s", " ", "c", "o", "m", "m", "e", "n", "t", " ", "h", "a", "s", " ",
      "b", "e", "e", "n", " ", "r", "e", "s", "o", "l", "v", "e", "d", ".", "*">>

\* line 73
UpdatedBody(b) == b \o <<"\n", "\n">> \o ResolvedMarker

\* lines 67-71
ShouldResolve(comment, slug) ==
    /\ comment.type = "Bot"
    /\ StartsWith(comment.login, slug)
    /\ ~Contains(comment.body, ResolvedMarker)

\* the app: GET /app answers with its slug, and its comments are written by
\* the bot user <slug>[bot]
AppSlug == <<"r", "b">>
AppLogin == AppSlug \o <<"[", "b", "o", "t", "]">>

\* the authors of the comments of a pull request: the app's bot user, the bot
\* user of an app whose slug begins with this app's slug, another bot, a person
Authors ==
    { [type |-> "Bot", login |-> AppLogin],
      [type |-> "Bot", login |-> <<"r", "b", "x", "[", "b", "o", "t", "]">>],
      [type |-> "Bot", login |-> <<"c", "i", "[", "b", "o", "t", "]">>],
      [type |-> "User", login |-> <<"r", "b", "u", "s", "e", "r">>] }

Fix == <<"f", "i", "x">>

Bodies == {Fix, UpdatedBody(Fix)}

MaxComments == 2

MaxRuns == 2

PrComments ==
    UNION {[1..n -> [type : {a.type : a \in Authors}, login : {a.login : a \in Authors},
                     body : Bodies]] : n \in 0..MaxComments}

InitResolver ==
    /\ pr_comments \in PrComments
    /\ \A i \in DOMAIN pr_comments :
          [type |-> pr_comments[i].type, login |-> pr_comments[i].login] \in Authors
    /\ pr_reviews = <<>>
    /\ rpc = "fetch"
    /\ rcomments = <<>>
    /\ bot_slug = <<>>
    /\ ri = 1
    /\ resolved_count = 0
    /\ rrun = 1
    /\ rupdated = {}
    /\ rlog = <<>>
    /\ MapperOff
    /\ ParserOff
    /\ AuthOff

ResolverFrame == UNCHANGED <<mapperVars, parserVars, authVars>>

\* lines 53-55
ResolveFetchComments ==
    /\ rpc = "fetch"
    /\ rcomments' = pr_comments
    /\ rpc' = "app"
    /\ UNCHANGED <<pr_comments, pr_reviews, bot_slug, ri, resolved_count, rrun, rupdated, rlog>>
    /\ ResolverFrame

\* lines 58-64
ResolveGetApp ==
    /\ rpc = "app"
    /\ bot_slug' = AppSlug
    /\ resolved_count' = 0
    /\ ri' = 1
    /\ rpc' = "loop"
    /\ UNCHANGED <<pr_comments, pr_reviews, rcomments, rrun, rupdated, rlog>>
    /\ ResolverFrame

\* lines 54, 59, 77 with 85-86, and 81 with 87-88: a request answered with an
\* error status ends the run with an exception
ResolveRequestFails ==
    /\ \/ rpc \in {"fetch", "app"}
       \/ rpc = "loop" /\ ri <= Len(rcomments) /\ ShouldResolve(rcomments[ri], bot_slug)
       \/ rpc = "loop" /\ ri > Len(rcomments) /\ resolved_count > 0
    /\ rpc' = "error"
    /\ UNCHANGED <<pr_comments, pr_reviews, rcomments, bot_slug, ri, resolved_count, rrun,
                   rupdated, rlog>>
    /\ ResolverFrame

\* lines 65-71, the test is false
ResolveSkipComment ==
    /\ rpc = "loop"
    /\ ri <= Len(rcomments)
    /\ ~ShouldResolve(rcomments[ri], bot_slug)
    /\ ri' = ri + 1
    /\ UNCHANGED <<pr_comments, pr_reviews, rpc, rcomments, bot_slug, resolved_count, rrun,
                   rupdated, rlog>>
    /\ ResolverFrame

\* lines 65-78: the PATCH of comment id succeeds (id is the position in
\* pr_comments)
ResolvePatchComment ==
    /\ rpc = "loop"
    /\ ri <= Len(rcomments)
    /\ ShouldResolve(rcomments[ri], bot_slug)
    /\ pr_comments' = [pr_comments EXCEPT ![ri].body = UpdatedBody(rcomments[ri].body)]
    /\ resolved_count' = resolved_count + 1
    /\ rupdated' = rupdated \cup {[run |-> rrun, id |-> ri, before |-> pr_comments[ri].body]}
    /\ ri' = ri + 1
    /\ UNCHANGED <<pr_reviews, rpc, rcomments, bot_slug, rrun, rlog>>
    /\ ResolverFrame

\* lines 80-83
ResolveCreateReview ==
    /\ rpc = "loop"
    /\ ri > Len(rcomments)
    /\ resolved_count > 0
    /\ pr_reviews' = Append(pr_reviews, [run |-> rrun, event |-> "APPROVE",
                                          resolved |-> resolved_count])
    /\ rpc' = "done"
    /\ UNCHANGED <<pr_comments, rcomments, bot_slug, ri, resolved_count, rrun, rupdated, rlog>>
    /\ ResolverFrame

\* line 80, the test is false
ResolveNoReview ==
    /\ rpc = "loop"
    /\ ri > Len(rcomments)
    /\ resolved_count = 0
    /\ rpc' = "done"
    /\ UNCHANGED <<pr_comments, pr_reviews, rcomments, bot_slug, ri, resolved_count, rrun,
                   rupdated, rlog>>
    /\ ResolverFrame

\* the script is run again on the same pull request
ResolveRunAgain ==
    /\ rpc \in {"done", "error"}
    /\ rrun < MaxRuns
    /\ rlog' = Append(rlog, rpc)
    /\ rrun' = rrun + 1
    /\ rpc' = "fetch"
    /\ rcomments' = <<>>
    /\ bot_slug' = <<>>
    /\ ri' = 1
    /\ resolved_count' = 0
    /\ UNCHANGED <<pr_comments, pr_reviews, rupdated>>
    /\ ResolverFrame

NextResolver ==
    \/ ResolveFetchComments
    \/ ResolveGetApp
    \/ ResolveRequestFails
    \/ ResolveSkipComment
    \/ ResolvePatchComment
    \/ ResolveCreateReview
    \/ ResolveNoReview
    \/ ResolveRunAgain

SpecResolver == InitResolver /\ [][NextResolver]_vars

----------------------------------------------------------------------------
(* Claims about resolve_bot_comments *)

\* the comment was written by the app's bot user
AuthoredByBot(comment) == comment.type = "Bot" /\ comment.login = AppLogin

UpdatedIn(run) == {u \in rupdated : u.run = run}

ReviewsOf(run) == {k \in DOMAIN pr_reviews : pr_reviews[k].run = run}

\* C25 as stated: the marker is appended only to comments written by the bot
\* that do not contain it yet; a run that completes creates an APPROVE review
\* exactly when it updated at least one comment; a run that follows a
\* completed run updates no comment and creates no review.
C25_AsStated ==
    /\ \A u \in rupdated :
          /\ AuthoredByBot(pr_comments[u.id])
          /\ ~Contains(u.before, ResolvedMarker)
          /\ pr_comments[u.id].body = UpdatedBody(u.before)
    /\ rpc = "done" => (ReviewsOf(rrun) # {} <=> UpdatedIn(rrun) # {})
    /\ \A k \in DOMAIN pr_reviews : pr_reviews[k].event = "APPROVE"
    /\ (rrun >= 2 /\ rlog[rrun - 1] = "done")
          => /\ UpdatedIn(rrun) = {}
             /\ ReviewsOf(rrun) = {}

====
